---- MODULE Spec2Model ----
(***************************************************************************)
(* FamilyConnect: the points / streak / overdue-penalty accounting of the  *)
(* server (src/server/routes.ts, src/server/storage.ts, src/server/auth.ts)*)
(* Every request handler is split at its awaits on the database, so that   *)
(* handlers of different requests interleave the way the Node event loop   *)
(* interleaves them.                                                       *)
(***************************************************************************)
EXTENDS Integers, Sequences, FiniteSets, TLC

\* ------------------------------------------------------------------ bounds
NumTasks == 3
MaxDay == 2
TodPerDay == 2
MaxRequests == 2

\* the family members registered before the run starts
Users == {1, 2}
\* the tasks stored before the run starts
TaskIds == 1..NumTasks
\* task ids a request may name: those of the start and one more
TaskInputs == 1..(NumTasks + 1)
\* the ids the tasks serial hands out in a run: those of the start and two more
TaskSerials == 1..(NumTasks + 2)
\* handler slots: how many requests can be in progress at once
Reqs == {1, 2}
Days == 0..MaxDay
InteractionTypes == {"like", "dislike"}
\* user ids a request may name, and the ids the users serial hands out: those
\* of the start and one more
UserInputs == Users \cup {3}
\* request bodies of PATCH /api/users/:userId: no column at all, a profile text,
\* or columns of the users table the handler does not filter out
PatchBodies ==
    {<<>>, [bio |-> "text"], [points |-> 7], [isAdmin |-> TRUE], [streak |-> 2]}

\* ------------------------------------------------------------------ time
\* A timestamp is a calendar day and a time of day (TodPerDay ticks a day).
Time(d, h) == [day |-> d, tod |-> h]
\* users.lastStreak is nullable: NoTime stands for null
NoTime == Time(-1, 0)
TimeVal(t) == t.day * TodPerDay + t.tod

Sign(x) == IF x > 0 THEN 1 ELSE IF x < 0 THEN -1 ELSE 0
Abs(x) == IF x < 0 THEN -x ELSE x

\* date-fns compareLocalAsc: the sign of the difference of two local timestamps
compareLocalAsc(l, r) == Sign(TimeVal(l) - TimeVal(r))
\* date-fns differenceInCalendarDays: difference of the two start-of-days
differenceInCalendarDays(l, r) == l.day - r.day
\* date-fns differenceInDays: the number of FULL days between two timestamps
differenceInDays(l, r) ==
    LET sign == compareLocalAsc(l, r)
        difference == Abs(differenceInCalendarDays(l, r))
        shifted == Time(l.day - sign * difference, l.tod)
        isLastDayNotFull == IF compareLocalAsc(shifted, r) = -sign THEN 1 ELSE 0
    IN  sign * (difference - isLastDayNotFull)

\* ------------------------------------------------------------------ state
VARIABLES
    users,            \* users table: id -> [isAdmin, points, streak, lastStreak]
    tasks,            \* tasks table: id -> row
    submissions,      \* submissions table, in insertion order
    dailyCompletions, \* user_daily_completions: markers per (userId, date)
    interactions,     \* user_interactions table, in insertion order
    now,              \* the wall clock
    pc,               \* where each request's handler stands
    loc,              \* each handler's local variables
    lastOp,           \* how the last request that ended was answered
    ledger,           \* per user: sum of the point changes the handlers applied
    penalties,        \* per task: how many times a sweep charged its penalty
    started,          \* how many requests have arrived
    nextTaskId,       \* the next value of the tasks.id serial
    server            \* what the run has shown of the server process

vars == <<users, tasks, submissions, dailyCompletions, interactions, now, pc, loc,
          lastOp, ledger, penalties, started, nextTaskId, server>>

db == <<users, tasks, submissions, dailyCompletions, interactions>>

\* schema.ts users: isAdmin default false, points default 0, streak default 0,
\* lastStreak null
NewUser == [isAdmin |-> FALSE, points |-> 0, streak |-> 0, lastStreak |-> NoTime]
\* auth.ts createInitialAdmin: the first user is the administrator
InitialAdmin == [NewUser EXCEPT !.isAdmin = TRUE]

\* The tasks the administrator has created before the run starts; the approve
\* endpoint stores the taskPoints of the request body as they are.
TaskOwner(t) == IF t % 3 = 0 THEN 2 ELSE 1
TaskDue(t) == IF t % 3 = 0 THEN 1 ELSE -1
TaskPoints(t) == IF t % 3 = 0 THEN -5 ELSE IF t % 2 = 0 THEN 5 ELSE 10
\* schema.ts tasks: completed false, attempts 0, status 'pending', penaltyApplied false
NewTask(t) ==
    [userId |-> TaskOwner(t), dueDate |-> TaskDue(t), taskPoints |-> TaskPoints(t),
     completed |-> FALSE, attempts |-> 0, completedBy |-> 0,
     status |-> "pending", penaltyApplied |-> FALSE]

IdleLoc ==
    [kind |-> "none", uid |-> 0, tid |-> 0, correct |-> FALSE,
     reqUser |-> NewUser, task |-> NewTask(1), today |-> NoTime,
     hasCompletedToday |-> FALSE, user |-> NewUser,
     overdueTasks |-> <<>>, idx |-> 0, txDelta |-> 0, txTasks |-> {},
     receiverId |-> 0, type |-> "like", target |-> 0, body |-> [bio |-> "text"],
     dueDate |-> 0]

\* lastOp: how the last finished request ended. A correct submission that
\* went through, a sweep that went through, a few rejections and a request
\* that ended without an answer are told apart from the rest.
NoOp ==
    [kind |-> "none", uid |-> 0, day |-> -1, ptsBefore |-> 0, taskPoints |-> 0,
     found |-> 0]
OtherOp == [NoOp EXCEPT !.kind = "other"]
\* a submission answered 404 "Task not found"
NotFoundOp == [NoOp EXCEPT !.kind = "submit404"]
\* a request whose handler ended without sending an answer
UnansweredOp == [NoOp EXCEPT !.kind = "unanswered"]
\* an interaction of a user with themselves, answered 400
SelfInteractionOp(giver) == [NoOp EXCEPT !.kind = "interact400", !.uid = giver]

\* Three properties of the server process are fixed for a run and show only
\* when a handler first depends on them:
\*   daily  whether storage has checkDailyCompletion and recordDailyCompletion.
\*          The storage of src/server/storage.ts has neither ("absent"): the
\*          call of routes.ts:286 throws a TypeError. "present" is a storage
\*          that has them as the specification describes them.
\*   record what recordDailyCompletion does when it finds the marker stored
\*          already: nothing ("noop") or throw ("fails"); the specification
\*          allows both.
\*   zone   whether the server's time zone is east of UTC ("east") or not
\*          ("west"), which decides the date toISOString cuts from a local
\*          midnight (routes.ts:418-425).
Unknown == [daily |-> "unknown", record |-> "unknown", zone |-> "unknown"]
Settled(field, values) == IF field = "unknown" THEN values ELSE {field}

Init ==
    /\ users = [u \in Users |-> IF u = 1 THEN InitialAdmin ELSE NewUser]
    /\ tasks = [t \in TaskIds |-> NewTask(t)]
    /\ submissions = <<>>
    /\ dailyCompletions = [k \in UserInputs \X Days |-> 0]
    /\ interactions = <<>>
    /\ now = Time(0, 0)
    /\ pc = [r \in Reqs |-> "idle"]
    /\ loc = [r \in Reqs |-> IdleLoc]
    /\ lastOp = NoOp
    /\ ledger = [u \in UserInputs |-> 0]
    /\ penalties = [t \in TaskSerials |-> 0]
    /\ started = 0
    /\ nextTaskId = NumTasks + 1
    /\ server = Unknown

AllIdle == \A r \in Reqs : pc[r] = "idle"

\* a request that arrives takes the first free handler slot
Arrive(r) ==
    /\ pc[r] = "idle"
    /\ \A q \in Reqs : q < r => pc[q] # "idle"
    /\ started < MaxRequests
    /\ started' = started + 1

\* the request is answered: its handler's locals are gone
Answer(r, op) ==
    /\ pc' = [pc EXCEPT ![r] = "idle"]
    /\ loc' = [loc EXCEPT ![r] = IdleLoc]
    /\ lastOp' = op

\* the handler's promise rejects outside any try/catch: the handler is gone and
\* no answer is sent
Abandon(r) ==
    /\ pc' = [pc EXCEPT ![r] = "idle"]
    /\ loc' = [loc EXCEPT ![r] = IdleLoc]
    /\ lastOp' = UnansweredOp

Goto(r, label, newLoc) ==
    /\ pc' = [pc EXCEPT ![r] = label]
    /\ loc' = [loc EXCEPT ![r] = newLoc]
    /\ lastOp' = lastOp

\* a correct submission answered 200: who, on which day, req.user.points, task.taskPoints
SubmitOp(r) ==
    [kind |-> "submit", uid |-> loc[r].uid, day |-> loc[r].today.day,
     ptsBefore |-> loc[r].reqUser.points, taskPoints |-> loc[r].task.taskPoints]
\* a sweep answered 200: the day its select was evaluated on (CURRENT_DATE) and
\* how many overdue tasks it had found
SweepOp(r, n) ==
    [NoOp EXCEPT !.kind = "sweep", !.uid = loc[r].uid,
                 !.day = IF n = 0 THEN now.day ELSE loc[r].today.day, !.found = n]
\* a sweep answered 500 out of its transaction
SweepFailedOp(r) == [SweepOp(r, Len(loc[r].overdueTasks)) EXCEPT !.kind = "sweep500"]
\* a correct submission answered 500
SubmitFailedOp(r) == [NoOp EXCEPT !.kind = "submit500", !.uid = loc[r].uid]

\* ------------------------------------------------------------------ clock
\* time passes, up to the start of day MaxDay
Tick ==
    /\ now.day < MaxDay
    /\ now' = IF now.tod + 1 < TodPerDay THEN Time(now.day, now.tod + 1)
              ELSE Time(now.day + 1, 0)
    /\ UNCHANGED <<db, pc, loc, lastOp, ledger, penalties, started, nextTaskId, server>>

\* ------------------------------------------------------------------ POST /api/tasks/:taskId/submit
\* passport.deserializeUser loads req.user from the users table when the request
\* arrives; the handler reads req.user.points from this copy to its end.
StartSubmit(r, u, t, verdict) ==
    /\ Arrive(r)
    /\ Goto(r, "getTask", [IdleLoc EXCEPT !.kind = "submit", !.uid = u, !.tid = t,
                                          !.correct = verdict, !.reqUser = users[u]])
    /\ UNCHANGED <<db, now, ledger, penalties, nextTaskId, server>>

\* a handler that goes on without looking at what the lookup returned
GetTaskByIdMut(r) ==
    /\ pc[r] = "getTask"
    /\ Goto(r, "createSub", loc[r])
    /\ UNCHANGED <<db, now, ledger, penalties, started, nextTaskId, server>>

\* storage.getTaskById; an unknown task is answered 404 before anything is written
GetTaskById(r) ==
    /\ pc[r] = "getTask"
    /\ IF loc[r].tid \in DOMAIN tasks
       THEN Goto(r, "createSub", [loc[r] EXCEPT !.task = tasks[loc[r].tid]])
       ELSE Answer(r, NotFoundOp)
    /\ UNCHANGED <<db, now, ledger, penalties, started, nextTaskId, server>>

\* storage.createSubmission, with the verdict verifyAnswer returned; the insert
\* throws on submissions.task_id's foreign key when the task has been deleted
\* since the lookup, and the catch answers 500
CreateSubmission(r) ==
    /\ pc[r] = "createSub"
    /\ IF loc[r].tid \in DOMAIN tasks
       THEN /\ submissions' = Append(submissions,
                   [taskId |-> loc[r].tid, userId |-> loc[r].uid,
                    correct |-> loc[r].correct, submittedAt |-> now])
            /\ Goto(r, IF loc[r].correct THEN "updTask" ELSE "updAttempts", loc[r])
       ELSE /\ submissions' = submissions
            /\ Answer(r, IF loc[r].correct THEN SubmitFailedOp(r) ELSE OtherOp)
    /\ UNCHANGED <<users, tasks, dailyCompletions, interactions, now, ledger, penalties, started, nextTaskId, server>>

\* an update for a correct submission that leaves the attempts column out
CompletedTaskNoAttemptMut(row, task, uid) ==
    [row EXCEPT !.completed = TRUE, !.completedBy = uid, !.status = "completed"]

\* an update that writes the whole row anew, penalty flag included
CompletedTaskMut(row, task, uid) ==
    [row EXCEPT !.completed = TRUE, !.completedBy = uid,
                !.attempts = task.attempts + 1, !.status = "completed",
                !.penaltyApplied = FALSE]

\* the row storage.updateTask writes for a correct submission
CompletedTask(row, task, uid) ==
    [row EXCEPT !.completed = TRUE, !.completedBy = uid,
                !.attempts = task.attempts + 1, !.status = "completed"]

\* UPDATE tasks ... WHERE id = taskId: no row when the task has been deleted.
\* The handler goes on to `const today = new Date()` and to the call of
\* storage.checkDailyCompletion(req.user.id, today) without another await:
\* where storage has no such function the call throws and the catch answers
\* 500 (routes.ts:285-286, 330-335).
UpdateTaskCompleted(r) ==
    /\ pc[r] = "updTask"
    /\ tasks' = [t \in DOMAIN tasks |->
                    IF t = loc[r].tid THEN CompletedTask(tasks[t], loc[r].task, loc[r].uid)
                    ELSE tasks[t]]
    /\ \E d \in Settled(server.daily, {"absent", "present"}) :
          /\ server' = [server EXCEPT !.daily = d]
          /\ IF d = "present"
             THEN Goto(r, "checkDaily", [loc[r] EXCEPT !.today = now])
             ELSE Answer(r, SubmitFailedOp(r))
    /\ UNCHANGED <<users, submissions, dailyCompletions, interactions, now, ledger, penalties, started, nextTaskId>>

\* storage.checkDailyCompletion(userId, date): is there a marker of this user
\* for the calendar day of `date`
checkDailyCompletion(userId, date) == dailyCompletions[<<userId, date.day>>] > 0

\* a handler that runs the streak path on every correct submission
StreakPathRunsMut(hasCompletedToday) == TRUE

\* if (!hasCompletedToday): the streak path runs
StreakPathRuns(hasCompletedToday) == ~hasCompletedToday

\* hasCompletedToday = await storage.checkDailyCompletion(req.user.id, today),
\* in a storage that has it: the select runs on the table as it is now, for
\* the `today` the handler read before the call
CheckDaily(r) ==
    /\ pc[r] = "checkDaily"
    /\ LET has == checkDailyCompletion(loc[r].uid, loc[r].today)
       IN  Goto(r, IF StreakPathRuns(has) THEN "recordDaily" ELSE "updPoints",
                [loc[r] EXCEPT !.hasCompletedToday = has])
    /\ UNCHANGED <<db, now, ledger, penalties, started, nextTaskId, server>>

\* storage.recordDailyCompletion(userId, date), in a storage that has it:
\* "inserts a marker, fails (or is a no-op) if one already exists". The table
\* user_daily_completions has no unique key on (userId, date) (schema.ts:21-26),
\* so the database cannot refuse or skip a second row by itself: the function
\* looks for the marker with one statement and inserts it with another.
\* This is the insert: one more row for the user and the calendar day of `date`.
recordDailyCompletion(userId, date) ==
    [dailyCompletions EXCEPT ![<<userId, date.day>>] = @ + 1]

\* await storage.recordDailyCompletion(req.user.id, today), first statement:
\* the function looks for the marker. When it is stored already the function
\* returns without an insert or throws, and the catch answers 500.
RecordDaily(r) ==
    /\ pc[r] = "recordDaily"
    /\ IF checkDailyCompletion(loc[r].uid, loc[r].today)
       THEN \E o \in Settled(server.record, {"noop", "fails"}) :
               /\ server' = [server EXCEPT !.record = o]
               /\ IF o = "noop"
                  THEN Goto(r, "getUser", loc[r])
                  ELSE Answer(r, SubmitFailedOp(r))
       ELSE /\ server' = server
            /\ Goto(r, "recordInsert", loc[r])
    /\ UNCHANGED <<db, now, ledger, penalties, started, nextTaskId>>

\* storage.recordDailyCompletion, second statement: the insert
RecordInsert(r) ==
    /\ pc[r] = "recordInsert"
    /\ dailyCompletions' = recordDailyCompletion(loc[r].uid, loc[r].today)
    /\ Goto(r, "getUser", loc[r])
    /\ UNCHANGED <<users, tasks, submissions, interactions, now, ledger, penalties, started, nextTaskId, server>>

\* storage.getUser inside the streak path
GetUser(r) ==
    /\ pc[r] = "getUser"
    /\ Goto(r, "updStreak", [loc[r] EXCEPT !.user = users[loc[r].uid]])
    /\ UNCHANGED <<db, now, ledger, penalties, started, nextTaskId, server>>

\* a streak that falls back to 0 when the day before was missed
NewStreakZeroMut(user, today) ==
    IF user.lastStreak # NoTime /\ differenceInDays(today, user.lastStreak) = 1
    THEN user.streak + 1
    ELSE 0

\* a streak that grows with any gap of a day or more
NewStreakMut(user, today) ==
    IF user.lastStreak # NoTime /\ differenceInDays(today, user.lastStreak) >= 1
    THEN user.streak + 1
    ELSE 1

\* newStreak: 1, or user.streak + 1 when differenceInDays(today, lastStreak) is 1
NewStreak(user, today) ==
    IF user.lastStreak # NoTime /\ differenceInDays(today, user.lastStreak) = 1
    THEN user.streak + 1
    ELSE 1

\* streak path, points: req.user.points + task.taskPoints
StreakPathPoints(reqUser, task) == reqUser.points + task.taskPoints

\* else branch, points: req.user.points + task.taskPoints
SameDayPoints(reqUser, task) == reqUser.points + task.taskPoints

\* an update that credits the user the task is assigned to
UpdateStreakAndPointsMut(r) ==
    /\ pc[r] = "updStreak"
    /\ users' = [users EXCEPT
                    ![loc[r].task.userId].points = @ + loc[r].task.taskPoints,
                    ![loc[r].uid].streak = NewStreak(loc[r].user, loc[r].today),
                    ![loc[r].uid].lastStreak = loc[r].today]
    /\ ledger' = [ledger EXCEPT ![loc[r].task.userId] = @ + loc[r].task.taskPoints]
    /\ Answer(r, SubmitOp(r))
    /\ UNCHANGED <<tasks, submissions, dailyCompletions, interactions, now, penalties, started, nextTaskId, server>>

\* storage.updateUser({points, streak, lastStreak})
UpdateStreakAndPoints(r) ==
    /\ pc[r] = "updStreak"
    /\ users' = [users EXCEPT
                    ![loc[r].uid].points = StreakPathPoints(loc[r].reqUser, loc[r].task),
                    ![loc[r].uid].streak = NewStreak(loc[r].user, loc[r].today),
                    ![loc[r].uid].lastStreak = loc[r].today]
    /\ ledger' = [ledger EXCEPT ![loc[r].uid] = @ + loc[r].task.taskPoints]
    /\ Answer(r, SubmitOp(r))
    /\ UNCHANGED <<tasks, submissions, dailyCompletions, interactions, now, penalties, started, nextTaskId, server>>

\* storage.updateUser({points}) when a task was already completed today
UpdatePointsOnly(r) ==
    /\ pc[r] = "updPoints"
    /\ users' = [users EXCEPT ![loc[r].uid].points =
                    SameDayPoints(loc[r].reqUser, loc[r].task)]
    /\ ledger' = [ledger EXCEPT ![loc[r].uid] = @ + loc[r].task.taskPoints]
    /\ Answer(r, SubmitOp(r))
    /\ UNCHANGED <<tasks, submissions, dailyCompletions, interactions, now, penalties, started, nextTaskId, server>>

\* an update for an incorrect submission that also reopens the task
UpdateAttemptsMut(r) ==
    /\ pc[r] = "updAttempts"
    /\ tasks' = [t \in DOMAIN tasks |->
                    IF t = loc[r].tid
                    THEN [tasks[t] EXCEPT !.attempts = loc[r].task.attempts + 1,
                                          !.status = "pending"]
                    ELSE tasks[t]]
    /\ Answer(r, OtherOp)
    /\ UNCHANGED <<users, submissions, dailyCompletions, interactions, now, ledger, penalties, started, nextTaskId, server>>

\* storage.updateTask({attempts}) for an incorrect submission
UpdateAttempts(r) ==
    /\ pc[r] = "updAttempts"
    /\ tasks' = [t \in DOMAIN tasks |->
                    IF t = loc[r].tid
                    THEN [tasks[t] EXCEPT !.attempts = loc[r].task.attempts + 1]
                    ELSE tasks[t]]
    /\ Answer(r, OtherOp)
    /\ UNCHANGED <<users, submissions, dailyCompletions, interactions, now, ledger, penalties, started, nextTaskId, server>>

SubmitStep(r) ==
    \/ GetTaskById(r)
    \/ CreateSubmission(r)
    \/ UpdateTaskCompleted(r)
    \/ CheckDaily(r)
    \/ RecordDaily(r)
    \/ RecordInsert(r)
    \/ GetUser(r)
    \/ UpdateStreakAndPoints(r)
    \/ UpdatePointsOnly(r)
    \/ UpdateAttempts(r)

\* ------------------------------------------------------------------ POST /api/tasks/check-overdue
StartSweep(r, u) ==
    /\ Arrive(r)
    /\ Goto(r, "select", [IdleLoc EXCEPT !.kind = "sweep", !.uid = u,
                                         !.reqUser = users[u]])
    /\ UNCHANGED <<db, now, ledger, penalties, nextTaskId, server>>

\* a select without the penaltyApplied and status guards
IsOverdueMut(row, userId) ==
    /\ row.userId = userId
    /\ row.completed = FALSE
    /\ row.dueDate < now.day

\* a select over the overdue tasks of every user
IsOverdueAnyUser(row, userId) ==
    /\ row.completed = FALSE
    /\ row.penaltyApplied = FALSE
    /\ row.dueDate < now.day
    /\ row.status = "pending"

\* the WHERE clause of checkOverdueTasks' select
IsOverdue(row, userId) ==
    /\ row.userId = userId
    /\ row.completed = FALSE
    /\ row.penaltyApplied = FALSE
    /\ row.dueDate < now.day
    /\ row.status = "pending"

\* the selected rows (id and row as read), by ascending id
RECURSIVE SelectFrom(_, _)
SelectFrom(t, userId) ==
    IF t >= nextTaskId THEN <<>>
    ELSE (IF t \in DOMAIN tasks /\ IsOverdue(tasks[t], userId)
          THEN <<[id |-> t, row |-> tasks[t]]>> ELSE <<>>) \o SelectFrom(t + 1, userId)

OverdueTasks(userId) == SelectFrom(1, userId)

\* the select, and `if (overdueTasks.length === 0) return`
SelectOverdue(r) ==
    /\ pc[r] = "select"
    /\ LET found == OverdueTasks(loc[r].uid)
       IN  IF Len(found) = 0
           THEN Answer(r, SweepOp(r, 0))
           ELSE Goto(r, "txUser", [loc[r] EXCEPT !.overdueTasks = found, !.idx = 1,
                                                !.today = now])
    /\ UNCHANGED <<db, now, ledger, penalties, started, nextTaskId, server>>

\* a penalty that rounds half the taskPoints up
PenaltyPointsMut(row) == row.taskPoints - (row.taskPoints \div 2)

\* Math.floor(task.taskPoints / 2)
PenaltyPoints(row) == row.taskPoints \div 2

\* tx.update(users): points - penaltyPoints, held in the open transaction
TxUpdateUser(r) ==
    /\ pc[r] = "txUser"
    /\ Goto(r, "txTask",
            [loc[r] EXCEPT !.txDelta = @ + PenaltyPoints(loc[r].overdueTasks[loc[r].idx].row)])
    /\ UNCHANGED <<db, now, ledger, penalties, started, nextTaskId, server>>

\* tx.update(tasks): status 'missed', penaltyApplied true, held in the open
\* transaction; then the next task of the loop, or the commit
TxUpdateTask(r) ==
    /\ pc[r] = "txTask"
    /\ LET l == [loc[r] EXCEPT !.txTasks = @ \cup {loc[r].overdueTasks[loc[r].idx].id}]
       IN  IF loc[r].idx < Len(loc[r].overdueTasks)
           THEN Goto(r, "txUser", [l EXCEPT !.idx = @ + 1])
           ELSE Goto(r, "commit", l)
    /\ UNCHANGED <<db, now, ledger, penalties, started, nextTaskId, server>>

MissedTask(row) == [row EXCEPT !.status = "missed", !.penaltyApplied = TRUE]

\* the writes of a transaction, applied to the tables
ApplyTx(r) ==
    /\ users' = [users EXCEPT ![loc[r].uid].points = @ - loc[r].txDelta]
    /\ tasks' = [t \in DOMAIN tasks |->
                    IF t \in loc[r].txTasks THEN MissedTask(tasks[t]) ELSE tasks[t]]
    /\ ledger' = [ledger EXCEPT ![loc[r].uid] = @ - loc[r].txDelta]
    /\ penalties' = [t \in TaskSerials |->
                    IF t \in loc[r].txTasks THEN penalties[t] + 1 ELSE penalties[t]]

\* db.transaction resolves: COMMIT
TxCommit(r) ==
    /\ pc[r] = "commit"
    /\ ApplyTx(r)
    /\ Answer(r, SweepOp(r, Len(loc[r].overdueTasks)))
    /\ UNCHANGED <<submissions, dailyCompletions, interactions, now, started, nextTaskId, server>>

SweepStep(r) ==
    \/ SelectOverdue(r)
    \/ TxUpdateUser(r)
    \/ TxUpdateTask(r)
    \/ TxCommit(r)

\* ------------------------------------------------------------------ POST /api/interactions
\* a handler without the self-interaction check
AcceptSelfInteractionMut(r, giver, type) ==
    /\ Arrive(r)
    /\ Goto(r, "recent", [IdleLoc EXCEPT !.kind = "interact", !.uid = giver,
                                         !.receiverId = giver, !.type = type,
                                         !.reqUser = users[giver], !.today = now])
    /\ UNCHANGED <<db, now, ledger, penalties, nextTaskId, server>>

\* `if (interaction.giverId === interaction.receiverId)`: 400, nothing written
RejectSelfInteraction(r, giver, type) ==
    /\ Arrive(r)
    /\ Answer(r, SelfInteractionOp(giver))
    /\ UNCHANGED <<db, now, ledger, penalties, nextTaskId, server>>

\* the handler calls storage.getRecentInteraction before its first await:
\* `const yesterday = new Date()` is read as the request arrives
StartInteraction(r, giver, receiver, type) ==
    /\ Arrive(r)
    /\ giver # receiver
    /\ Goto(r, "recent", [IdleLoc EXCEPT !.kind = "interact", !.uid = giver,
                                         !.receiverId = receiver, !.type = type,
                                         !.reqUser = users[giver], !.today = now])
    /\ UNCHANGED <<db, now, ledger, penalties, nextTaskId, server>>

\* storage.getRecentInteraction: yesterday is the time of the call less one
\* day (storage.ts:207-209); the select, run on the table as it is when it
\* executes, looks for a row giver -> receiver created after yesterday
getRecentInteraction(giverId, receiverId, called) ==
    LET yesterday == Time(called.day - 1, called.tod)
    IN  \E i \in 1..Len(interactions) :
            /\ interactions[i].giverId = giverId
            /\ interactions[i].receiverId = receiverId
            /\ TimeVal(interactions[i].createdAt) > TimeVal(yesterday)

\* await storage.getRecentInteraction: 400 when it returns a row; yesterday is
\* a local of the call and is gone when it has returned
CheckRecentInteraction(r) ==
    /\ pc[r] = "recent"
    /\ IF getRecentInteraction(loc[r].uid, loc[r].receiverId, loc[r].today)
       THEN Answer(r, OtherOp)
       ELSE Goto(r, "insert", [loc[r] EXCEPT !.today = NoTime])
    /\ UNCHANGED <<db, now, ledger, penalties, started, nextTaskId, server>>

\* createInteraction: the insert; it throws on receiver_id's foreign key when
\* no such user is stored, and the catch answers 500
InsertInteraction(r) ==
    /\ pc[r] = "insert"
    /\ IF loc[r].receiverId \in DOMAIN users
       THEN /\ interactions' = Append(interactions,
                   [giverId |-> loc[r].uid, receiverId |-> loc[r].receiverId,
                    type |-> loc[r].type, createdAt |-> now])
            /\ Goto(r, "addPoints", loc[r])
       ELSE /\ interactions' = interactions
            /\ Answer(r, OtherOp)
    /\ UNCHANGED <<users, tasks, submissions, dailyCompletions, now, ledger, penalties, started, nextTaskId, server>>

\* a point change that ignores the type
PointChangeMut(type) == 2

PointChange(type) == IF type = "like" THEN 2 ELSE -2

\* createInteraction: UPDATE users SET points = points + pointChange
AddInteractionPoints(r) ==
    /\ pc[r] = "addPoints"
    /\ users' = [users EXCEPT ![loc[r].receiverId].points = @ + PointChange(loc[r].type)]
    /\ ledger' = [ledger EXCEPT ![loc[r].receiverId] = @ + PointChange(loc[r].type)]
    /\ Answer(r, OtherOp)
    /\ UNCHANGED <<tasks, submissions, dailyCompletions, interactions, now, penalties, started, nextTaskId, server>>

InteractionStep(r) ==
    \/ CheckRecentInteraction(r)
    \/ InsertInteraction(r)
    \/ AddInteractionPoints(r)

\* ------------------------------------------------------------------ PATCH /api/users/:userId
\* `userId !== req.user?.id && !req.user?.isAdmin`: 403, nothing written
RejectPatch(r, u, target, body) ==
    /\ Arrive(r)
    /\ target # u /\ ~users[u].isAdmin
    /\ Answer(r, OtherOp)
    /\ UNCHANGED <<db, now, ledger, penalties, nextTaskId, server>>

StartPatch(r, u, target, body) ==
    /\ Arrive(r)
    /\ target = u \/ users[u].isAdmin
    /\ Goto(r, "patchUser", [IdleLoc EXCEPT !.kind = "patch", !.uid = u, !.target = target,
                                            !.body = body, !.reqUser = users[u]])
    /\ UNCHANGED <<db, now, ledger, penalties, nextTaskId, server>>

\* storage.updateUser: UPDATE users SET <updates>; of the columns set, the row
\* here keeps those the model has
updateUser(row, updates) ==
    [f \in DOMAIN row |-> IF f \in DOMAIN updates THEN updates[f] ELSE row[f]]

\* storage.updateUser(userId, req.body). With no column to set the query
\* builder throws, and with no such user the update returns no row and the
\* destructuring of routes.ts:159 throws: the handler has no try/catch.
PatchUser(r) ==
    /\ pc[r] = "patchUser"
    /\ IF loc[r].target \in DOMAIN users /\ DOMAIN loc[r].body # {}
       THEN /\ users' = [users EXCEPT ![loc[r].target] = updateUser(@, loc[r].body)]
            /\ ledger' = [ledger EXCEPT ![loc[r].target] =
                     @ + (users'[loc[r].target].points - users[loc[r].target].points)]
            /\ Answer(r, OtherOp)
       ELSE /\ UNCHANGED <<users, ledger>>
            /\ Abandon(r)
    /\ UNCHANGED <<tasks, submissions, dailyCompletions, interactions, now, penalties, started, nextTaskId, server>>

\* ------------------------------------------------------------------ POST /api/users/:userId/reset-password
\* requireAdmin: 403 for a user who is not an administrator
RejectReset(r, u, target) ==
    /\ Arrive(r)
    /\ ~users[u].isAdmin
    /\ Answer(r, OtherOp)
    /\ UNCHANGED <<db, now, ledger, penalties, nextTaskId, server>>

StartReset(r, u, target) ==
    /\ Arrive(r)
    /\ users[u].isAdmin
    /\ Goto(r, "resetGet", [IdleLoc EXCEPT !.kind = "reset", !.uid = u, !.target = target,
                                           !.reqUser = users[u]])
    /\ UNCHANGED <<db, now, ledger, penalties, nextTaskId, server>>

\* storage.getUser; an unknown user is answered 404
ResetGetUser(r) ==
    /\ pc[r] = "resetGet"
    /\ IF loc[r].target \in DOMAIN users
       THEN Goto(r, "resetUpd", loc[r])
       ELSE Answer(r, OtherOp)
    /\ UNCHANGED <<db, now, ledger, penalties, started, nextTaskId, server>>

\* storage.updateUser(userId, { password: hashedPassword })
ResetUpdate(r) ==
    /\ pc[r] = "resetUpd"
    /\ users' = [users EXCEPT ![loc[r].target] = updateUser(@, [password |-> "hash"])]
    /\ Answer(r, OtherOp)
    /\ UNCHANGED <<tasks, submissions, dailyCompletions, interactions, now, ledger, penalties, started, nextTaskId, server>>

UserStep(r) ==
    \/ PatchUser(r)
    \/ ResetGetUser(r)
    \/ ResetUpdate(r)

\* ------------------------------------------------------------------ administrator routes
\* requireAdmin: 403 for a user who is not an administrator (DELETE
\* /api/tasks/:taskId, POST /api/tasks, POST /api/tasks/approve), before the
\* handler runs
RejectNotAdmin(r, u) ==
    /\ Arrive(r)
    /\ ~users[u].isAdmin
    /\ Answer(r, OtherOp)
    /\ UNCHANGED <<db, now, ledger, penalties, nextTaskId, server>>

\* ---- DELETE /api/tasks/:taskId
StartDelete(r, u, t) ==
    /\ Arrive(r)
    /\ users[u].isAdmin
    /\ Goto(r, "deleteTask", [IdleLoc EXCEPT !.kind = "delete", !.uid = u, !.tid = t,
                                             !.reqUser = users[u]])
    /\ UNCHANGED <<db, now, ledger, penalties, nextTaskId, server>>

\* the rows of a table with a task_id column that references tasks.id on
\* delete cascade, without those of task t
RECURSIVE WithoutTask(_, _)
WithoutTask(rows, t) ==
    IF rows = <<>> THEN <<>>
    ELSE (IF Head(rows).taskId = t THEN <<>> ELSE <<Head(rows)>>)
         \o WithoutTask(Tail(rows), t)

\* storage.deleteTask: DELETE FROM tasks WHERE id = taskId, and the cascade
DeleteTask(r) ==
    /\ pc[r] = "deleteTask"
    /\ tasks' = [t \in DOMAIN tasks \ {loc[r].tid} |-> tasks[t]]
    /\ submissions' = WithoutTask(submissions, loc[r].tid)
    /\ Answer(r, OtherOp)
    /\ UNCHANGED <<users, dailyCompletions, interactions, now, ledger, penalties, started,
                   nextTaskId, server>>

\* ---- POST /api/tasks
\* what insertTaskSchema keeps of the body that the model holds: userId, dueDate
CreateBodies == {[userId |-> 2, dueDate |-> 0], [userId |-> 3, dueDate |-> 0]}

\* the handler starts only while the serial has n ids of TaskSerials left and
\* no other insert into tasks is on its way
CanCreateTask(n) ==
    /\ nextTaskId + n - 1 \in TaskSerials
    /\ \A q \in Reqs : pc[q] \notin {"createTask", "approveGet", "approveCreate", "approveGen"}

StartCreate(r, u, body) ==
    /\ Arrive(r)
    /\ users[u].isAdmin
    /\ CanCreateTask(1)
    /\ Goto(r, "createTask", [IdleLoc EXCEPT !.kind = "create", !.uid = u, !.body = body,
                                             !.reqUser = users[u]])
    /\ UNCHANGED <<db, now, ledger, penalties, nextTaskId, server>>

\* storage.createTask: INSERT INTO tasks; the serial is taken also when the
\* insert fails
InsertTask(row) ==
    /\ tasks' = [t \in DOMAIN tasks \cup {nextTaskId} |->
                    IF t = nextTaskId THEN row ELSE tasks[t]]
    /\ nextTaskId' = nextTaskId + 1

\* the columns the schema fills in are the defaults of a new task
CreateTask(r) ==
    /\ pc[r] = "createTask"
    /\ IF loc[r].body.userId \in DOMAIN users
       THEN InsertTask([NewTask(1) EXCEPT !.userId = loc[r].body.userId,
                                          !.dueDate = loc[r].body.dueDate,
                                          !.taskPoints = 10])
       ELSE tasks' = tasks /\ nextTaskId' = nextTaskId + 1
    /\ Answer(r, OtherOp)
    /\ UNCHANGED <<users, submissions, dailyCompletions, interactions, now, ledger,
                   penalties, started, server>>

\* ---- POST /api/tasks/approve
\* req.body.tasks: the generated tasks of one request; of each task the handler
\* sets userId (that of the first task), dueDate, completed and completedBy
\* itself and stores the rest as it is
ApproveBodies ==
    {<<[userId |-> 1, dayNumber |-> 0, taskPoints |-> 3, attempts |-> 0,
        status |-> "pending", penaltyApplied |-> FALSE]>>,
     <<[userId |-> 2, dayNumber |-> -1, taskPoints |-> 40, attempts |-> 2,
        status |-> "missed", penaltyApplied |-> TRUE]>>,
     <<[userId |-> 3, dayNumber |-> 0, taskPoints |-> 10, attempts |-> 0,
        status |-> "pending", penaltyApplied |-> FALSE]>>,
     <<[userId |-> 2, dayNumber |-> 1, taskPoints |-> 10, attempts |-> 0,
        status |-> "pending", penaltyApplied |-> FALSE],
       [userId |-> 1, dayNumber |-> 0, taskPoints |-> 3, attempts |-> 0,
        status |-> "pending", penaltyApplied |-> FALSE]>>}

StartApprove(r, u, body) ==
    /\ Arrive(r)
    /\ users[u].isAdmin
    /\ CanCreateTask(Len(body))
    /\ Goto(r, "approveGet", [IdleLoc EXCEPT !.kind = "approve", !.uid = u, !.body = body,
                                             !.reqUser = users[u]])
    /\ UNCHANGED <<db, now, ledger, penalties, nextTaskId, server>>

\* new Date(), setDate(getDate() + dayNumber), setHours(0, 0, 0, 0),
\* toISOString().split('T')[0]: the local midnight of the due day, printed in
\* UTC; east of UTC that instant belongs to the day before
DueDate(today, dayNumber, zone) ==
    today.day + dayNumber - (IF zone = "east" THEN 1 ELSE 0)

\* storage.getUser(tasks[0].userId); "User not found" is answered 500.
\* Otherwise the loop starts: the due date of the first task is computed from
\* the clock as it is now, before the insert is awaited.
ApproveGetUser(r) ==
    /\ pc[r] = "approveGet"
    /\ IF loc[r].body[1].userId \in DOMAIN users
       THEN \E z \in Settled(server.zone, {"east", "west"}) :
               /\ server' = [server EXCEPT !.zone = z]
               /\ Goto(r, "approveCreate",
                       [loc[r] EXCEPT !.idx = 1,
                                      !.dueDate = DueDate(now, loc[r].body[1].dayNumber, z)])
       ELSE /\ server' = server
            /\ Answer(r, OtherOp)
    /\ UNCHANGED <<db, now, ledger, penalties, started, nextTaskId>>

\* one turn of the loop: storage.createTask({...task, userId, dueDate,
\* completed: false, completedBy: null, ...}) with the due date computed
\* before the call. When the insert has resolved the handler computes the due
\* date of the next task and calls the next insert; after the last task it
\* goes on to storage.approveTaskGeneration.
ApproveCreate(r) ==
    /\ pc[r] = "approveCreate"
    /\ LET task == loc[r].body[loc[r].idx]
       IN  InsertTask([userId |-> loc[r].body[1].userId,
                       dueDate |-> loc[r].dueDate,
                       taskPoints |-> task.taskPoints,
                       completed |-> FALSE, attempts |-> task.attempts,
                       completedBy |-> 0, status |-> task.status,
                       penaltyApplied |-> task.penaltyApplied])
    /\ IF loc[r].idx < Len(loc[r].body)
       THEN Goto(r, "approveCreate",
                 [loc[r] EXCEPT !.idx = @ + 1,
                                !.dueDate = DueDate(now, loc[r].body[loc[r].idx + 1].dayNumber,
                                                    server.zone)])
       ELSE Goto(r, "approveGen", loc[r])
    /\ UNCHANGED <<users, submissions, dailyCompletions, interactions, now, ledger,
                   penalties, started, server>>

\* storage.approveTaskGeneration(generationId), then the answer; the
\* task_generations table is not part of the model
ApproveGeneration(r) ==
    /\ pc[r] = "approveGen"
    /\ Answer(r, OtherOp)
    /\ UNCHANGED <<db, now, ledger, penalties, started, nextTaskId, server>>

\* ---- POST /api/register
\* the columns of the body the model holds; isAdmin is Boolean(req.body.isAdmin).
\* A username is the number of the user that bears it: user k is named k, and
\* a body names the user the serial will number next (3) or a stored one (2).
RegisterBodies ==
    {[username |-> 3, isAdmin |-> FALSE, points |-> 0, streak |-> 0, lastStreak |-> NoTime],
     [username |-> 3, isAdmin |-> TRUE, points |-> 7, streak |-> 2, lastStreak |-> NoTime],
     [username |-> 2, isAdmin |-> FALSE, points |-> 0, streak |-> 0, lastStreak |-> NoTime]}

\* the next value of the users.id serial: no user is ever deleted
NextUserId == Cardinality(DOMAIN users) + 1

\* No middleware guards the route: the handler starts for any sender. It
\* starts only while the serial has an id of UserInputs left and no other
\* registration is on its way.
StartRegister(r, u, body) ==
    /\ Arrive(r)
    /\ NextUserId \in UserInputs
    /\ \A q \in Reqs : pc[q] \notin {"regByName", "regAllUsers", "createUser"}
    /\ Goto(r, "regByName", [IdleLoc EXCEPT !.kind = "register", !.uid = u, !.body = body,
                                            !.reqUser = users[u]])
    /\ UNCHANGED <<db, now, ledger, penalties, nextTaskId, server>>

\* storage.getUserByUsername(req.body.username): 400 "Username already exists"
\* when a user bears the name
RegisterGetByUsername(r) ==
    /\ pc[r] = "regByName"
    /\ IF loc[r].body.username \in DOMAIN users
       THEN Answer(r, OtherOp)
       ELSE Goto(r, "regAllUsers", loc[r])
    /\ UNCHANGED <<db, now, ledger, penalties, started, nextTaskId, server>>

\* storage.getAllUsers(): unless no user is stored yet, only an administrator
\* may go on; anyone else is answered 403. hashPassword, awaited next, reads
\* and writes nothing of the state.
RegisterGetAllUsers(r) ==
    /\ pc[r] = "regAllUsers"
    /\ LET isFirstUser == DOMAIN users = {}
       IN  IF ~isFirstUser /\ ~loc[r].reqUser.isAdmin
           THEN Answer(r, OtherOp)
           ELSE Goto(r, "createUser", loc[r])
    /\ UNCHANGED <<db, now, ledger, penalties, started, nextTaskId, server>>

\* storage.createUser({...req.body, isAdmin, password}), isAdmin being
\* Boolean(req.body.isAdmin) for a user who is not the first; the points the
\* row is created with count as applied to the new user
CreateUser(r) ==
    /\ pc[r] = "createUser"
    /\ users' = [u \in DOMAIN users \cup {NextUserId} |->
                    IF u = NextUserId
                    THEN [f \in DOMAIN NewUser |-> loc[r].body[f]]
                    ELSE users[u]]
    /\ ledger' = [ledger EXCEPT ![NextUserId] = loc[r].body.points - NewUser.points]
    /\ Answer(r, OtherOp)
    /\ UNCHANGED <<tasks, submissions, dailyCompletions, interactions, now, penalties,
                   started, nextTaskId, server>>

AdminStep(r) ==
    \/ DeleteTask(r)
    \/ CreateTask(r)
    \/ ApproveGetUser(r)
    \/ ApproveCreate(r)
    \/ ApproveGeneration(r)
    \/ RegisterGetByUsername(r)
    \/ RegisterGetAllUsers(r)
    \/ CreateUser(r)

\* ------------------------------------------------------------------ persistence failures
\* a database call of the submit handler throws: the catch answers 500
SubmitLabels ==
    {"getTask", "createSub", "updTask", "checkDaily", "recordDaily", "recordInsert",
     "getUser", "updStreak", "updPoints", "updAttempts"}

FailSubmit(r) ==
    /\ pc[r] \in SubmitLabels
    /\ Answer(r, IF loc[r].correct THEN SubmitFailedOp(r) ELSE OtherOp)
    /\ UNCHANGED <<db, now, ledger, penalties, started, nextTaskId, server>>

\* updates issued on the pool instead of the transaction: they stay when it throws
RollbackMut(r) == ApplyTx(r)

\* what a transaction that throws leaves in the tables: ROLLBACK
Rollback(r) == UNCHANGED <<users, tasks, ledger, penalties>>

\* an update inside db.transaction throws (or the commit does)
FailSweepTx(r) ==
    /\ pc[r] \in {"txUser", "txTask", "commit"}
    /\ Rollback(r)
    /\ Answer(r, SweepFailedOp(r))
    /\ UNCHANGED <<submissions, dailyCompletions, interactions, now, started, nextTaskId, server>>

\* the select of the sweep, a statement of createInteraction, of the password
\* reset, of the task creation, of the approval or of the registration throws:
\* the handler's catch (or Express, from next(err)) answers 500
FailOther(r) ==
    /\ pc[r] \in {"select", "recent", "insert", "addPoints", "resetGet", "resetUpd",
                  "createTask", "approveGet", "approveCreate", "approveGen",
                  "regByName", "regAllUsers", "createUser"}
    /\ Answer(r, OtherOp)
    /\ UNCHANGED <<db, now, ledger, penalties, started, nextTaskId, server>>

\* the statement of PATCH /api/users/:userId or of DELETE /api/tasks/:taskId
\* throws: neither handler has a try/catch
FailNoCatch(r) ==
    /\ pc[r] \in {"patchUser", "deleteTask"}
    /\ Abandon(r)
    /\ UNCHANGED <<db, now, ledger, penalties, started, nextTaskId, server>>

\* ------------------------------------------------------------------ specifications
\* a request is sent by a stored user
Start(r) ==
    \/ \E u \in DOMAIN users, t \in TaskInputs, verdict \in BOOLEAN :
          StartSubmit(r, u, t, verdict)
    \/ \E u \in DOMAIN users : StartSweep(r, u)
    \/ \E g \in DOMAIN users, type \in InteractionTypes : RejectSelfInteraction(r, g, type)
    \/ \E g \in DOMAIN users, rcv \in UserInputs, type \in InteractionTypes :
          StartInteraction(r, g, rcv, type)
    \/ \E u \in DOMAIN users, target \in UserInputs, body \in PatchBodies :
          RejectPatch(r, u, target, body) \/ StartPatch(r, u, target, body)
    \/ \E u \in DOMAIN users, target \in UserInputs :
          RejectReset(r, u, target) \/ StartReset(r, u, target)
    \/ \E u \in DOMAIN users : RejectNotAdmin(r, u)
    \/ \E u \in DOMAIN users, t \in TaskInputs : StartDelete(r, u, t)
    \/ \E u \in DOMAIN users, body \in CreateBodies : StartCreate(r, u, body)
    \/ \E u \in DOMAIN users, body \in ApproveBodies : StartApprove(r, u, body)
    \/ \E u \in DOMAIN users, body \in RegisterBodies : StartRegister(r, u, body)

Step(r) ==
    SubmitStep(r) \/ SweepStep(r) \/ InteractionStep(r) \/ UserStep(r) \/ AdminStep(r)

Fail(r) == FailSubmit(r) \/ FailSweepTx(r) \/ FailOther(r) \/ FailNoCatch(r)

\* requests overlap; no database call fails
Next ==
    \/ Tick
    \/ \E r \in Reqs : Start(r)
    \/ \E r \in Reqs : Step(r)

Spec == Init /\ [][Next]_vars

\* overlapping requests of the three routes that add to or subtract from a
\* user's points: submissions, interactions and overdue sweeps
StartPoints(r) ==
    \/ \E u \in DOMAIN users, t \in TaskInputs, verdict \in BOOLEAN :
          StartSubmit(r, u, t, verdict)
    \/ \E u \in DOMAIN users : StartSweep(r, u)
    \/ \E g \in DOMAIN users, type \in InteractionTypes : RejectSelfInteraction(r, g, type)
    \/ \E g \in DOMAIN users, rcv \in UserInputs, type \in InteractionTypes :
          StartInteraction(r, g, rcv, type)

NextPoints ==
    \/ Tick
    \/ \E r \in Reqs : StartPoints(r)
    \/ \E r \in Reqs : SubmitStep(r) \/ SweepStep(r) \/ InteractionStep(r)

SpecPoints == Init /\ [][NextPoints]_vars

\* the same three routes, with requests handled one at a time
NextSeqPoints ==
    \/ Tick
    \/ \E r \in Reqs : AllIdle /\ StartPoints(r)
    \/ \E r \in Reqs : SubmitStep(r) \/ SweepStep(r) \/ InteractionStep(r)

SpecSeqPoints == Init /\ [][NextSeqPoints]_vars

\* requests are handled one at a time; no database call fails
NextSeq ==
    \/ Tick
    \/ \E r \in Reqs : AllIdle /\ Start(r)
    \/ \E r \in Reqs : Step(r)

SpecSeq == Init /\ [][NextSeq]_vars

\* requests are handled one at a time; any database call may fail
NextFail ==
    \/ Tick
    \/ \E r \in Reqs : AllIdle /\ Start(r)
    \/ \E r \in Reqs : Step(r)
    \/ \E r \in Reqs : Fail(r)

SpecFail == Init /\ [][NextFail]_vars

\* requests are handled one at a time; only a statement inside the sweep's
\* transaction may fail
NextTxFail ==
    \/ Tick
    \/ \E r \in Reqs : AllIdle /\ Start(r)
    \/ \E r \in Reqs : Step(r)
    \/ \E r \in Reqs : FailSweepTx(r)

SpecTxFail == Init /\ [][NextTxFail]_vars

\* The streak calculation on every streak and lastStreak a users row can hold
\* (PATCH /api/users/:userId writes both columns as the body gives them; a
\* lastStreak later than the clock is a clock that went back): user 1 starts
\* with any of them, at any time, and submissions are handled one at a time.
Times == {Time(d, h) : d \in Days, h \in 0..(TodPerDay - 1)}

InitStreak ==
    /\ \E s \in 0..MaxDay, l \in {NoTime} \cup Times :
          users = [u \in Users |->
                      IF u = 1 THEN [InitialAdmin EXCEPT !.streak = s, !.lastStreak = l]
                      ELSE NewUser]
    /\ tasks = [t \in TaskIds |-> NewTask(t)]
    /\ submissions = <<>>
    /\ dailyCompletions = [k \in UserInputs \X Days |-> 0]
    /\ interactions = <<>>
    /\ now \in Times
    /\ pc = [r \in Reqs |-> "idle"]
    /\ loc = [r \in Reqs |-> IdleLoc]
    /\ lastOp = NoOp
    /\ ledger = [u \in UserInputs |-> 0]
    /\ penalties = [t \in TaskSerials |-> 0]
    /\ started = 0
    /\ nextTaskId = NumTasks + 1
    /\ server = Unknown

NextStreak ==
    \/ Tick
    \/ \E r \in Reqs, u \in DOMAIN users, t \in TaskInputs, verdict \in BOOLEAN :
          AllIdle /\ StartSubmit(r, u, t, verdict)
    \/ \E r \in Reqs : SubmitStep(r)

SpecStreak == InitStreak /\ [][NextStreak]_vars

\* The same start on the morning of day 1, user 1's lastStreak being null or a
\* time of day 0, with submissions whose handling overlaps.
InitStreakOverlap ==
    /\ InitStreak
    /\ now = Time(1, 0)
    /\ users[1].lastStreak \in {NoTime} \cup {Time(0, h) : h \in 0..(TodPerDay - 1)}

NextStreakOverlap ==
    \/ Tick
    \/ \E r \in Reqs, u \in DOMAIN users, t \in TaskInputs, verdict \in BOOLEAN :
          StartSubmit(r, u, t, verdict)
    \/ \E r \in Reqs : SubmitStep(r)

SpecStreakOverlap == InitStreakOverlap /\ [][NextStreakOverlap]_vars

\* ------------------------------------------------------------------ claims
Max(S) == CHOOSE x \in S : \A y \in S : y <= x
Min(S) == CHOOSE x \in S : \A y \in S : x <= y

\* the calendar days on which user u has a submission judged correct
CorrectDays(u) ==
    {submissions[i].submittedAt.day : i \in
        {j \in 1..Len(submissions) : submissions[j].userId = u /\ submissions[j].correct}}

\* the request in slot r is answered by this step
Answered(r) == pc[r] # "idle" /\ pc'[r] = "idle"

\* C1: when no request is in progress, a user whose correct submissions fall on
\* N consecutive calendar days (none skipped, starting from lastStreak = null)
\* has streak = N.
C1_StreakIsConsecutiveDays ==
    AllIdle =>
        \A u \in DOMAIN users :
            LET D == CorrectDays(u)
            IN  (D # {} /\ D = Min(D)..Max(D)) => users[u].streak = Cardinality(D)

\* C2: when no request is in progress, a user whose latest day with a correct
\* submission lies two or more calendar days after the previous such day has
\* streak = 1.
C2_GapResetsStreak ==
    AllIdle =>
        \A u \in DOMAIN users :
            LET D == CorrectDays(u)
            IN  (D # {} /\ D \ {Max(D)} # {} /\ Max(D) - Max(D \ {Max(D)}) >= 2)
                    => users[u].streak = 1

\* C3: when the only two requests of a run are two correct submissions of one
\* user, made one after the other on the same calendar day, then once both
\* have ended the user's points are the points before the first (those of a new
\* user) plus the taskPoints of both tasks.
C3_SameDayPointsAdd ==
    (/\ AllIdle
     /\ started = 2
     /\ Len(submissions) = 2
     /\ \A i \in 1..2 : submissions[i].correct
     /\ submissions[1].userId = submissions[2].userId
     /\ submissions[1].submittedAt.day = submissions[2].submittedAt.day
     /\ \A i \in 1..2 : submissions[i].taskId \in DOMAIN tasks)
    => users[submissions[1].userId].points =
           NewUser.points + tasks[submissions[1].taskId].taskPoints
                          + tasks[submissions[2].taskId].taskPoints

\* C4: a correct submission that finds a daily-completion marker of its user
\* for today is answered with the user's streak and lastStreak as they were
\* when the request arrived.
C4_SameDayKeepsStreak ==
    [][\A r \in Reqs :
        (/\ Answered(r)
         /\ lastOp'.kind = "submit"
         /\ loc[r].hasCompletedToday)
        => /\ users'[loc[r].uid].streak = loc[r].reqUser.streak
           /\ users'[loc[r].uid].lastStreak = loc[r].reqUser.lastStreak]_vars

\* user 1 has two correct submissions on one day, the second made later in the
\* day, and lastStreak is still the time of the first
C4_Witness ==
    /\ AllIdle
    /\ lastOp.kind = "submit"
    /\ Len(submissions) = 2
    /\ \A i \in 1..2 : submissions[i].correct /\ submissions[i].userId = 1
    /\ submissions[1].submittedAt.day = submissions[2].submittedAt.day
    /\ submissions[1].submittedAt # submissions[2].submittedAt
    /\ users[1].lastStreak = submissions[1].submittedAt
    /\ users[1].streak = 1

\* C5: while a sweep of user u runs right after an answered sweep of u on the
\* same day, no step changes any user's points or any task's status or
\* penaltyApplied.
C5_SecondSweepIdempotent ==
    [][(/\ lastOp.kind = "sweep"
        /\ lastOp.day = now.day
        /\ \E r \in Reqs : pc[r] # "idle" /\ loc[r].kind = "sweep" /\ loc[r].uid = lastOp.uid)
       => /\ \A u \in DOMAIN users : users'[u].points = users[u].points
          /\ \A t \in DOMAIN tasks \cap DOMAIN tasks' :
                /\ tasks'[t].status = tasks[t].status
                /\ tasks'[t].penaltyApplied = tasks[t].penaltyApplied]_vars

\* a sweep of user 1 that found nothing, answered after a sweep that had charged
\* task 1 once
C5_Witness ==
    /\ {1} \subseteq DOMAIN tasks
    /\ AllIdle
    /\ lastOp.kind = "sweep"
    /\ lastOp.uid = 1
    /\ lastOp.found = 0
    /\ started = 2
    /\ penalties[1] = 1
    /\ tasks[1].status = "missed"
    /\ tasks[1].penaltyApplied

\* C6: no task's penalty is charged more than once.
C6_PenaltyAtMostOnce == \A t \in TaskSerials : penalties[t] <= 1

\* C7: a user's points are the initial points plus every delta applied to them.
C7_PointsAreLedger == \A u \in DOMAIN users : users[u].points = NewUser.points + ledger[u]

\* C8: a task whose status is no longer 'pending' keeps its status.
C8_StatusTerminal ==
    [][\A t \in DOMAIN tasks \cap DOMAIN tasks' :
        tasks[t].status # "pending" => tasks'[t].status = tasks[t].status]_vars

\* the penalties of the tasks a sweep has selected
RECURSIVE SumPenalties(_)
SumPenalties(found) ==
    IF found = <<>> THEN 0
    ELSE (Head(found).row.taskPoints \div 2) + SumPenalties(Tail(found))

\* C9: a sweep that fails inside its transaction leaves the user's points and
\* every task it had selected untouched; a sweep that commits has marked every
\* selected task and charged the sum of their penalties.
C9_SweepAllOrNothing ==
    [][\A r \in Reqs :
        (Answered(r) /\ pc[r] \in {"txUser", "txTask", "commit"})
        => LET found == loc[r].overdueTasks
               ids == {found[i].id : i \in 1..Len(found)}
           IN  IF lastOp'.kind = "sweep"
               THEN /\ users'[loc[r].uid].points =
                           loc[r].reqUser.points - SumPenalties(found)
                    /\ \A t \in ids : tasks'[t].status = "missed" /\ tasks'[t].penaltyApplied
               ELSE /\ users'[loc[r].uid].points = loc[r].reqUser.points
                    /\ \A t \in ids : tasks'[t].status = "pending" /\ ~tasks'[t].penaltyApplied]_vars

\* a sweep of user 1 that had selected two tasks was answered 500, and both
\* tasks are pending with no penalty charged
C9_Witness ==
    /\ {1, 2} \subseteq DOMAIN tasks
    /\ AllIdle
    /\ lastOp.kind = "sweep500"
    /\ lastOp.uid = 1
    /\ lastOp.found = 2
    /\ tasks[1].status = "pending" /\ tasks[2].status = "pending"
    /\ users[1].points = 0

\* C10: a correct submission that is answered 500 has not marked its task
\* completed, nor recorded a daily-completion marker, without the submitter's
\* points update.
C10_NoPartialSubmission ==
    [][\A r \in Reqs :
        (/\ Answered(r)
         /\ lastOp'.kind = "submit500"
         /\ pc[r] # "getTask"
         /\ users'[loc[r].uid].points = loc[r].reqUser.points)
        => /\ ~(/\ tasks'[loc[r].tid].completed
                 /\ tasks'[loc[r].tid].attempts = loc[r].task.attempts + 1)
           /\ ~(/\ loc[r].today # NoTime
                 /\ ~loc[r].hasCompletedToday
                 /\ dailyCompletions'[<<loc[r].uid, loc[r].today.day>>] > 0)]_vars

C12_OnePerDayPerPair ==
    \A i, j \in 1..Len(interactions) :
        (/\ i < j
         /\ interactions[i].giverId = interactions[j].giverId
         /\ interactions[i].receiverId = interactions[j].receiverId)
        => TimeVal(interactions[j].createdAt) - TimeVal(interactions[i].createdAt)
               >= TodPerDay

\* C13: of the steps of an interaction request, the one that follows the insert
\* changes the receiver's points by +2 (like) or -2 (dislike) and nobody
\* else's; its other steps change no user's points.
C13_InteractionPoints ==
    [][\A r \in Reqs :
        (loc[r].kind = "interact" /\ pc'[r] # pc[r])
        => \A u \in DOMAIN users :
              users'[u].points =
                  IF pc[r] = "addPoints" /\ u = loc[r].receiverId
                  THEN users[u].points + (IF loc[r].type = "like" THEN 2 ELSE -2)
                  ELSE users[u].points]_vars

\* one dislike of user 2 for user 1 has been created and answered: user 1 has
\* lost 2 points, user 2 has the points of before
C13_Witness ==
    /\ AllIdle
    /\ Len(interactions) = 1
    /\ interactions[1].giverId = 2 /\ interactions[1].receiverId = 1
    /\ interactions[1].type = "dislike"
    /\ users[1].points = -2
    /\ users[2].points = 0

\* C14: a task whose penaltyApplied is true keeps it true in every step.
C14_PenaltyAppliedStays ==
    [][\A t \in DOMAIN tasks \cap DOMAIN tasks' :
        tasks[t].penaltyApplied => tasks'[t].penaltyApplied]_vars

\* task 1 was charged by a sweep and completed by a correct submission
\* afterwards: its penaltyApplied is still true
C14_Witness ==
    /\ {1} \subseteq DOMAIN tasks
    /\ AllIdle
    /\ tasks[1].penaltyApplied
    /\ tasks[1].completed
    /\ penalties[1] = 1

\* C15: the arrival of a submission request writes nothing, and its lookup,
\* when the task it names is not stored, answers it not-found and writes
\* nothing: these are the only steps of such a request.
C15_UnknownTaskChangesNothing ==
    [][\A r \in Reqs :
        /\ (pc[r] = "idle" /\ pc'[r] = "getTask") => db' = db
        /\ (pc[r] = "getTask" /\ pc'[r] # pc[r] /\ loc[r].tid \notin DOMAIN tasks)
           => /\ db' = db
              /\ pc'[r] = "idle"
              /\ lastOp'.kind = "submit404"]_vars

\* a submission for a task that is not stored has been answered not-found, and
\* the tables are those of the start
C15_Witness ==
    /\ AllIdle
    /\ lastOp.kind = "submit404"
    /\ started = 1
    /\ submissions = <<>>
    /\ tasks = [t \in TaskIds |-> NewTask(t)]
    /\ \A u \in DOMAIN users : users[u].points = 0 /\ users[u].streak = 0

\* the penalties of the selected tasks, with nothing charged for a task whose
\* taskPoints is zero or negative
RECURSIVE SumPositivePenalties(_)
SumPositivePenalties(found) ==
    IF found = <<>> THEN 0
    ELSE (IF Head(found).row.taskPoints > 0 THEN Head(found).row.taskPoints \div 2 ELSE 0)
         + SumPositivePenalties(Tail(found))

\* C16: a sweep that commits marks every selected task missed with
\* penaltyApplied true, and charges nothing for a selected task whose
\* taskPoints is zero or negative.
C16_NoPenaltyForNonPositive ==
    [][\A r \in Reqs :
        (pc[r] = "commit" /\ Answered(r) /\ lastOp'.kind = "sweep")
        => LET found == loc[r].overdueTasks
           IN  /\ users'[loc[r].uid].points =
                      users[loc[r].uid].points - SumPositivePenalties(found)
               /\ \A i \in 1..Len(found) :
                      /\ tasks'[found[i].id].status = "missed"
                      /\ tasks'[found[i].id].penaltyApplied]_vars

\* C17: a step that changes a user's points, streak or lastStreak is the
\* points/streak update of a correct submission, the points update of an
\* interaction, or the commit of an overdue sweep.
C17_OnlyLedgerEvents ==
    [][\A u \in DOMAIN users :
        (\/ users'[u].points # users[u].points
         \/ users'[u].streak # users[u].streak
         \/ users'[u].lastStreak # users[u].lastStreak)
        => \E r \in Reqs :
              /\ pc'[r] # pc[r]
              /\ pc[r] \in {"updStreak", "updPoints", "addPoints", "commit"}]_vars

\* the whole days from b to a: the difference in days, cut towards zero
WholeDays(a, b) ==
    LET d == TimeVal(a) - TimeVal(b)
    IN  IF d >= 0 THEN d \div TodPerDay ELSE -((-d) \div TodPerDay)

\* C18: the streak path writes streak 1 when lastStreak is null, the old
\* streak + 1 when today is exactly one whole day after lastStreak, and 1 for
\* every other difference; it writes lastStreak = today in all cases.
C18_StreakRule ==
    [][\A r \in Reqs :
        (pc[r] = "updStreak" /\ pc'[r] = "idle")
        => LET old == users[loc[r].uid]
               today == loc[r].today
           IN  /\ users'[loc[r].uid].streak =
                      IF old.lastStreak = NoTime THEN 1
                      ELSE IF WholeDays(today, old.lastStreak) = 1 THEN old.streak + 1
                      ELSE 1
               /\ users'[loc[r].uid].lastStreak = today]_vars

\* the streak path has run for user 1 and answered: the streak is one more
\* than the largest streak the user can start with
C18_Witness ==
    /\ AllIdle
    /\ lastOp.kind = "submit"
    /\ lastOp.uid = 1
    /\ users[1].streak = MaxDay + 1
    /\ users[1].lastStreak = now

\* the streaks the streak rule gives a user for a first correct submission
\* made at some time of calendar day d
FirstOfDayStreaks(user, d) ==
    {IF user.lastStreak = NoTime THEN 1
     ELSE IF WholeDays(Time(d, h), user.lastStreak) = 1 THEN user.streak + 1
     ELSE 1 : h \in 0..(TodPerDay - 1)}

\* the correct submissions of user u stamped with calendar day d
CorrectOn(u, d) ==
    {i \in 1..Len(submissions) :
        /\ submissions[i].userId = u
        /\ submissions[i].correct
        /\ submissions[i].submittedAt.day = d}

\* C19: a request takes the second handler slot only when it arrives while
\* another request is in progress. When a correct submission in the second
\* slot ends after a correct submission of the same user that was in progress
\* with it, both stamped today and the only correct ones of the user today,
\* the user's streak is what the streak rule gives for one first-of-day correct
\* submission today, applied to the streak and lastStreak of the user when the
\* later request arrived.
C19_OverlapCountsOnce ==
    [][(/\ Answered(2)
        /\ pc[1] = "idle"
        /\ loc[2].kind = "submit"
        /\ loc[2].correct
        /\ lastOp.kind \in {"submit", "submit500"}
        /\ lastOp.uid = loc[2].uid
        /\ lastOp'.kind \in {"submit", "submit500"}
        /\ Cardinality(CorrectOn(loc[2].uid, now.day)) = 2)
       => users'[loc[2].uid].streak \in FirstOfDayStreaks(loc[2].reqUser, now.day)]_vars

\* C20: the select of a sweep of user u takes exactly the pending, uncompleted,
\* unpenalized tasks of u due before today; no step of the sweep changes a
\* task outside this selection or another user's row.
C20_SweepFrame ==
    [][\A r \in Reqs :
        (loc[r].kind = "sweep" /\ pc'[r] # pc[r])
        => /\ \A u \in DOMAIN users \ {loc[r].uid} : users'[u] = users[u]
           /\ DOMAIN tasks' = DOMAIN tasks
           /\ \A t \in DOMAIN tasks :
                 (\A i \in 1..Len(loc[r].overdueTasks) : loc[r].overdueTasks[i].id # t)
                 => tasks'[t] = tasks[t]
           /\ pc[r] = "select" =>
                 {loc'[r].overdueTasks[i].id : i \in 1..Len(loc'[r].overdueTasks)}
                 = IF pc'[r] = "idle" THEN {}
                   ELSE {t \in DOMAIN tasks :
                           /\ tasks[t].userId = loc[r].uid
                           /\ tasks[t].completed = FALSE
                           /\ tasks[t].penaltyApplied = FALSE
                           /\ tasks[t].status = "pending"
                           /\ tasks[t].dueDate < now.day}
           /\ (pc[r] = "select" /\ pc'[r] = "idle") =>
                 ~\E t \in DOMAIN tasks :
                       /\ tasks[t].userId = loc[r].uid
                       /\ tasks[t].completed = FALSE
                       /\ tasks[t].penaltyApplied = FALSE
                       /\ tasks[t].status = "pending"
                       /\ tasks[t].dueDate < now.day]_vars

\* on day 2 a sweep of user 1 has marked task 1; task 3, overdue too but
\* assigned to user 2, and user 2 are as they were
C20_Witness ==
    /\ {1, 3} \subseteq DOMAIN tasks
    /\ AllIdle
    /\ lastOp.kind = "sweep" /\ lastOp.uid = 1 /\ lastOp.found >= 1
    /\ now.day = 2
    /\ tasks[1].status = "missed"
    /\ tasks[3] = NewTask(3)
    /\ users[2] = NewUser

\* C21: the commit of a sweep takes from the user's points the sum, over the
\* tasks the sweep had selected, of floor(taskPoints / 2), and leaves every
\* selected task that is still stored with status 'missed' and penaltyApplied
\* true.
C21_SweepCharges ==
    [][\A r \in Reqs :
        (pc[r] = "commit" /\ pc'[r] = "idle")
        => LET M == loc[r].overdueTasks
           IN  /\ users'[loc[r].uid].points = users[loc[r].uid].points - SumPenalties(M)
               /\ \A i \in 1..Len(M) :
                     M[i].id \in DOMAIN tasks
                     => /\ tasks'[M[i].id].status = "missed"
                        /\ tasks'[M[i].id].penaltyApplied]_vars

\* a sweep of user 1 over task 1 (taskPoints 10) and task 2 (taskPoints 5) has
\* been answered: 5 + 2 points are gone and both tasks are missed
C21_Witness ==
    /\ {1, 2} \subseteq DOMAIN tasks
    /\ AllIdle
    /\ lastOp.kind = "sweep" /\ lastOp.uid = 1 /\ lastOp.found = 2
    /\ started = 1
    /\ users[1].points = -7
    /\ tasks[1].status = "missed" /\ tasks[1].penaltyApplied
    /\ tasks[2].status = "missed" /\ tasks[2].penaltyApplied

\* C22: whenever no submission request is in progress, a daily-completion
\* marker of a user for a calendar day exists if and only if the user has a
\* submission judged correct on that day.
C22_MarkerIffCorrect ==
    (\A r \in Reqs : pc[r] = "idle" \/ loc[r].kind # "submit")
    => \A u \in DOMAIN users, d \in Days :
          dailyCompletions[<<u, d>>] > 0 <=> d \in CorrectDays(u)

\* C23: after any submissions, interactions and overdue sweeps a user's streak
\* is never negative, and it is 0 exactly when lastStreak is null (so at least
\* 1 whenever lastStreak is set).
C23_StreakZeroIffNoLastStreak ==
    \A u \in DOMAIN users :
        /\ users[u].streak >= 0
        /\ users[u].streak = 0 <=> users[u].lastStreak = NoTime
        /\ users[u].lastStreak # NoTime => users[u].streak >= 1

\* user 1 has completed a task on day 0 and on day 1 and has streak 2 with
\* lastStreak set; user 2 has done nothing and has streak 0 and no lastStreak
C23_Witness ==
    /\ AllIdle
    /\ users[1].streak = 2 /\ users[1].lastStreak = Time(1, 0)
    /\ users[2].streak = 0 /\ users[2].lastStreak = NoTime

\* C24: a task has completed = true exactly when its status is 'completed'; in
\* particular never completed = true together with status 'missed'.
C24_CompletedIffStatus ==
    \A t \in DOMAIN tasks :
        /\ tasks[t].completed <=> tasks[t].status = "completed"
        /\ ~(tasks[t].completed /\ tasks[t].status = "missed")

\* C25: the steps of a correct submission for a task that was already completed
\* when the handler read it change no user's points and leave the task's
\* completedBy as it is.
C25_AwardedOnce ==
    [][\A r \in Reqs :
        (/\ loc[r].kind = "submit"
         /\ loc[r].correct
         /\ pc[r] \notin {"idle", "getTask"}
         /\ loc[r].task.completed
         /\ pc'[r] # pc[r])
        => /\ \A u \in DOMAIN users : users'[u].points = users[u].points
           /\ loc[r].tid \in DOMAIN tasks
              => tasks'[loc[r].tid].completedBy = tasks[loc[r].tid].completedBy]_vars

\* C26: no step of a request whose authenticated user is not an administrator
\* turns a user's isAdmin from false to true.
C26_NoSelfPromotion ==
    [][\A r \in Reqs :
        (pc[r] # "idle" /\ pc'[r] # pc[r] /\ ~loc[r].reqUser.isAdmin)
        => \A u \in DOMAIN users : users'[u].isAdmin => users[u].isAdmin]_vars

\* C27: an incorrect submission appends one submission record with
\* correct = false and then adds 1 to the task's attempts; its steps change
\* nothing else: not the task's other columns, no other task, no user, no
\* daily-completion marker, no interaction.
C27_IncorrectSubmissionFrame ==
    [][\A r \in Reqs :
        (/\ loc[r].kind = "submit"
         /\ ~loc[r].correct
         /\ loc[r].tid \in DOMAIN tasks
         /\ pc'[r] # pc[r])
        => /\ users' = users
           /\ dailyCompletions' = dailyCompletions
           /\ interactions' = interactions
           /\ pc[r] = "getTask" => (pc'[r] = "createSub" /\ db' = db)
           /\ pc[r] = "createSub" =>
                 /\ pc'[r] = "updAttempts"
                 /\ tasks' = tasks
                 /\ Len(submissions') = Len(submissions) + 1
                 /\ SubSeq(submissions', 1, Len(submissions)) = submissions
                 /\ submissions'[Len(submissions')].taskId = loc[r].tid
                 /\ submissions'[Len(submissions')].userId = loc[r].uid
                 /\ submissions'[Len(submissions')].correct = FALSE
           /\ pc[r] = "updAttempts" =>
                 /\ pc'[r] = "idle"
                 /\ submissions' = submissions
                 /\ tasks' = [tasks EXCEPT ![loc[r].tid].attempts = @ + 1]]_vars

\* user 2's incorrect answer to task 1, after a sweep had marked the task
\* missed, has been answered: one record with correct = false, attempts 1, and
\* the task is missed as before
C27_Witness ==
    /\ {1} \subseteq DOMAIN tasks
    /\ AllIdle
    /\ Len(submissions) = 1
    /\ submissions[1] = [taskId |-> 1, userId |-> 2, correct |-> FALSE,
                         submittedAt |-> Time(0, 0)]
    /\ tasks[1] = [MissedTask(NewTask(1)) EXCEPT !.attempts = 1]
    /\ users[2] = NewUser
    /\ \A k \in UserInputs \X Days : dailyCompletions[k] = 0

\* C28: the steps of a correct submission change the points, streak and
\* lastStreak of no user but the submitter, whoever the task is assigned to,
\* and the task update sets completedBy to the submitter.
C28_OnlySubmitterCredited ==
    [][\A r \in Reqs :
        (/\ loc[r].kind = "submit"
         /\ loc[r].correct
         /\ loc[r].tid \in DOMAIN tasks
         /\ pc'[r] # pc[r])
        => /\ \A u \in DOMAIN users \ {loc[r].uid} :
                 /\ users'[u].points = users[u].points
                 /\ users'[u].streak = users[u].streak
                 /\ users'[u].lastStreak = users[u].lastStreak
           /\ pc[r] = "updTask" => tasks'[loc[r].tid].completedBy = loc[r].uid
           /\ pc[r] # "updTask" => tasks' = tasks]_vars

\* user 2's correct answer to task 1, which is assigned to user 1, has been
\* answered: user 2 has the points and the streak, user 1 has nothing, and
\* completedBy is user 2
C28_Witness ==
    /\ {1} \subseteq DOMAIN tasks
    /\ AllIdle
    /\ started = 1
    /\ lastOp.kind = "submit" /\ lastOp.uid = 2
    /\ tasks[1].userId = 1 /\ tasks[1].completedBy = 2
    /\ users[2].points = TaskPoints(1) /\ users[2].streak = 1 /\ users[2].lastStreak = now
    /\ users[1] = InitialAdmin

\* C29: an interaction request whose receiver is its giver is answered on
\* arrival with an error and writes nothing; no interaction record has its
\* giver as receiver, and the points update of an interaction never changes
\* the giver's points.
C29_NoSelfInteraction ==
    [][/\ (started' # started /\ lastOp'.kind = "interact400" /\ lastOp' # lastOp)
          => (db' = db /\ pc' = pc)
       /\ \A i \in 1..Len(interactions') :
             interactions'[i].giverId # interactions'[i].receiverId
       /\ \A r \in Reqs :
             (loc[r].kind = "interact" /\ pc'[r] # pc[r])
             => users'[loc[r].uid].points = users[loc[r].uid].points]_vars

\* user 2's like for user 2 has been answered with the error, after user 2's
\* like for user 1 had gone through: one record, user 2's points untouched
C29_Witness ==
    /\ AllIdle
    /\ lastOp.kind = "interact400" /\ lastOp.uid = 2
    /\ started = 2
    /\ Len(interactions) = 1
    /\ interactions[1].giverId = 2 /\ interactions[1].receiverId = 1
    /\ users[2].points = 0
    /\ users[1].points = 2

\* the submission records stored for task t
SubmissionsOf(t) == {i \in 1..Len(submissions) : submissions[i].taskId = t}

\* C30: with requests handled one at a time, whenever no submission is in
\* progress the attempts counter of every task equals the number of submission
\* records stored for it.
C30_AttemptsCountRecords ==
    (\A r \in Reqs : pc[r] = "idle" \/ loc[r].kind # "submit")
    => \A t \in DOMAIN tasks : tasks[t].attempts = Cardinality(SubmissionsOf(t))

\* task 1 has an incorrect and then a correct submission, task 2 none: two
\* records and attempts 2 for task 1
C30_Witness ==
    /\ {1, 2} \subseteq DOMAIN tasks
    /\ AllIdle
    /\ Len(submissions) = 2
    /\ submissions[1].taskId = 1 /\ ~submissions[1].correct
    /\ submissions[2].taskId = 1 /\ submissions[2].correct
    /\ tasks[1].attempts = 2
    /\ tasks[2].attempts = 0

====
